---- MODULE Spec2Model ----
(***************************************************************************)
(* bluemon: the BluetoothScanner scan scheduler                            *)
(* (src/module/bluetooth_scanner.py), its shared observation state, its    *)
(* callback fan-out, and the threads of src/bluemon.py that drive it; the  *)
(* live configuration and update_config (src/bluemon.py); the event store  *)
(* (src/module/store.py).                                                  *)
(* Every step is one point at which CPython may switch threads, or one     *)
(* SQLite statement.                                                       *)
(***************************************************************************)
EXTENDS Integers, Sequences, FiniteSets, TLC

(* ------------------------------ bounds --------------------------------- *)

\* Thread objects start_scanning may create in one behaviour.
MaxThreads == 2
\* Length of the rest between two passes (time.sleep(scan_interval)), in ticks.
IntervalTicks == 2
\* Raw readings the detection callback receives in one scan pass.
MaxReadings == 3
\* Length the callbacks list may reach.
MaxCallbacks == 3
\* Length of one sample (asyncio.sleep(scan_duration)) at start-up, in ticks.
DurationTicks == 1
\* Rows the device_scans table may hold.
MaxRows == 3
\* Devices in one insert_scan_results call.
MaxBatch == 2
\* The clock runs from 0 to MaxTime, in hours.
MaxTime == 2
\* The row cap of the summary's and the timeline's queries in the
\* specification in which the table outgrows the caps.
SmallCap == 1

(* ----------------------------- universe -------------------------------- *)

None == "None"
\* No Thread object (scanning_thread is None, no thread holds a reference).
NoThread == 0
Threads == 1..MaxThreads
Addresses == {"A", "B"}
\* A raw reading whose advertisement data carries no rssi attribute.
NoRssi == 1
Rssis == {-60, NoRssi}
Readings == [address : Addresses, rssi : Rssis]
Consumers == {"on_devices_found", "good", "bad"}

RECURSIVE SeqsUpTo(_, _)
SeqsUpTo(S, n) ==
  IF n = 0 THEN {<< >>}
  ELSE LET shorter == SeqsUpTo(S, n - 1)
       IN  shorter \cup {Append(s, x) : s \in {q \in shorter : Len(q) = n - 1}, x \in S}

\* What the Observation Source can deliver in one pass.
ReadingSeqs == SeqsUpTo(Readings, MaxReadings)
\* The passes the fan-out and reader specifications sample from.
FewReadingSeqs ==
  { << >>,
    << [address |-> "A", rssi |-> -60], [address |-> "B", rssi |-> -60] >> }

Range(s) == {s[i] : i \in 1..Len(s)}

VARIABLES
  \* BluetoothScanner fields
  is_scanning, scanning_thread, scan_interval, devices, alias, callbacks,
  lock, loopState, loopRunner,
  \* the scan threads: position, and the locals of _scan_loop
  tpc, nthreads, ldev, idx, cb, rest,
  \* the threads calling start_scanning / stop_scanning
  cpc, joinT,
  \* a thread calling get_devices
  rpc, rcopy, got,
  \* history: what happened, kept to state the properties
  raw, failed, calls, stable, changed, deregistered, lateCall,
  startsSinceStop, spawnedSinceStop, stopped, restedWhileStopping, snap,
  \* BluetoothScanner.scan_duration; bluemon.config; the content of config.json
  scan_duration, config, persisted,
  \* the threads calling update_config: position, argument, locals, result
  upc, payload, merged, ret,
  \* history of the latest update_config call of each thread
  pre, savedIn, outcome,
  \* history of a scan thread's iteration: the duration its sample slept, the
  \* interval its rest began with, the config in force when it began
  sample, usedInt, cfgAtStart,
  \* the device_scans table in id order, and the clock
  rows, now,
  \* a thread calling clear_all_data: position, records_before, and whether
  \* the table changed since it counted
  clrpc, clrBefore, clrQuiet,
  \* history: the latest store operation
  op,
  \* a thread calling analytics_summary: position, the row of its first
  \* query, and history: the write before the call, the tables the store held
  \* during the call that agree with the first query
  sumpc, sumStats, sumAfter, sumSeen,
  \* the transaction insert_scan_results has open; history: whether an append
  \* of a pass with devices has raised
  txn, sinkRaised

scannerVars == << is_scanning, scanning_thread, scan_interval, devices, alias,
                  callbacks, lock, loopState, loopRunner >>
loopVars == << tpc, nthreads, ldev, idx, cb, rest >>
ctlVars == << cpc, joinT >>
readerVars == << rpc, rcopy, got >>
fanHist == << calls, stable, changed, deregistered, lateCall >>
lifeHist == << startsSinceStop, spawnedSinceStop, stopped, restedWhileStopping >>
histVars == << raw, failed, fanHist, lifeHist, snap >>
cfgVars == << scan_duration, config, persisted, upc, payload, merged, ret,
              pre, savedIn, outcome >>
cadVars == << sample, usedInt, cfgAtStart >>
storeVars == << rows, now, clrpc, clrBefore, clrQuiet, op >>
sumVars == << sumpc, sumStats, sumAfter, sumSeen >>
sinkVars == << txn, sinkRaised >>
extVars == << cfgVars, cadVars, storeVars, sumVars, sinkVars >>
vars == << scannerVars, loopVars, ctlVars, readerVars, histVars, extVars >>

Callers == {"main", "web"}

\* The request threads that call update_config (waitress serves with threads).
Updaters == {"web1", "web2"}
\* The cadence fields of AppConfig that update_config merges.
Fields == {"scan_duration", "scan_interval", "sleep_duration"}

\* What the JSON body of POST /api/config holds for one field: nothing, an
\* integer, a string of digits ("0"), or a string that is not a number.
Absent == [kind |-> "absent", v |-> 0]
Num(n) == [kind |-> "int", v |-> n]
NumStr(n) == [kind |-> "numstr", v |-> n]
Text == [kind |-> "text", v |-> 0]
FieldValues == {Absent, Num(-1), NumStr(0), Num(4), Text}
Payloads == [Fields -> FieldValues]
\* Bodies that set the two scanner fields to a new positive value, or nothing.
CadencePayloads ==
  {p \in Payloads : /\ p["sleep_duration"] = Absent
                    /\ \A f \in Fields : p[f] \in {Absent, Num(4)}}

\* Bodies that set exactly one field, to a value no field starts with: one
\* field the scanner takes over and one it does not.
OneFieldPayloads ==
  {p \in Payloads : \E f \in {"scan_duration", "sleep_duration"} :
     /\ p[f] = Num(4)
     /\ \A g \in Fields \ {f} : p[g] = Absent}

\* The BluetoothDevice objects a pass hands to the store, and the batches: a
\* pass holds one device per address (list(detected_devices.values())).
Times == 0..MaxTime
StoreDevices == [address : Addresses, rssi : {-60}, timestamp : Times]
Batches ==
  {b \in SeqsUpTo(StoreDevices, MaxBatch) :
     \A i, j \in 1..Len(b) : i # j => b[i].address # b[j].address}
\* The batches the clear specification samples from.
FewBatches ==
  { << >>,
    << [address |-> "A", rssi |-> -60, timestamp |-> 0] >>,
    << [address |-> "A", rssi |-> -60, timestamp |-> 0],
       [address |-> "B", rssi |-> -60, timestamp |-> 1] >> }
\* hours of GET /api/timeline, limit of GET /api/recent
Hours == {1, 2}

\* The results of a pass at clock nw: every device carries the
\* datetime.now() of its detection.
StampedBatches(nw) == {b \in Batches : \A i \in 1..Len(b) : b[i].timestamp = nw}
Limits == (-1)..MaxRows

(* ------------------------- pure helpers -------------------------------- *)

\* BluetoothDevice built by the detection callback from one raw reading.
\* The passes the scanner delivers while its consumer appends them to the
\* store.
SinkReadingSeqs ==
  FewReadingSeqs \cup { << [address |-> "A", rssi |-> -60] >> }

BluetoothDevice(r) ==
  [address |-> r.address, rssi |-> IF r.rssi = NoRssi THEN 0 ELSE r.rssi]

\* A callback that keeps the first reading of an address
\* (detected_devices.setdefault).
DictPutFirstWins(d, r) ==
  IF \E i \in 1..Len(d) : d[i].address = r.address
  THEN d
  ELSE Append(d, BluetoothDevice(r))

\* detected_devices[device.address] = BluetoothDevice(...): a dict keeps the
\* position of a key's first insertion and the value of its last assignment.
detection_callback(d, r) ==
  IF \E i \in 1..Len(d) : d[i].address = r.address
  THEN [i \in 1..Len(d) |->
          IF d[i].address = r.address THEN BluetoothDevice(r) ELSE d[i]]
  ELSE Append(d, BluetoothDevice(r))

\* list(detected_devices.values()) after the callback ran on every reading.
RECURSIVE ScanResult(_)
ScanResult(rs) ==
  IF rs = << >> THEN << >>
  ELSE detection_callback(ScanResult(SubSeq(rs, 1, Len(rs) - 1)), rs[Len(rs)])

Alive(t) == tpc[t] \notin {"none", "new", "done"}

NoCalls == [c \in Consumers |-> 0]

Bump(n, cap) == IF n < cap THEN n + 1 ELSE n

\* int(x) raises ValueError on a string that is not a number.
IntRaises(x) == x.kind = "text"

\* int(new_cfg.get(f, default)) where it does not raise.
IntOf(x, default) == IF x.kind = "absent" THEN default ELSE x.v

\* The cadence pair of a config.
Cadence(cfg) == [scan_duration |-> cfg["scan_duration"],
                 scan_interval |-> cfg["scan_interval"]]

\* No iteration in progress, nothing read yet.
NoCadence == [scan_duration |-> 0, scan_interval |-> 0]
NoRead == 0

\* What update_config may overwrite, as it stands now.
Snapshot == [config |-> config, persisted |-> persisted,
             scan_duration |-> scan_duration, scan_interval |-> scan_interval]

NoOp == [name |-> "none"]

\* NULL in a timestamp column of a result.
NoTs == -1

\* No first query has run.
NoStats == [total_records |-> 0, unique_devices |-> 0,
            first_seen |-> NoTs, last_seen |-> NoTs]

\* No transaction is open.
NoTxn == [state |-> "none"]

(* ------------------------------ Init ----------------------------------- *)

\* The state main() leaves after constructing the scanner and registering
\* on_devices_found, before run_scanner_loop.
Init ==
  /\ is_scanning = FALSE
  /\ scanning_thread = NoThread
  /\ scan_interval = IntervalTicks
  /\ devices = << >>
  /\ alias = NoThread
  /\ callbacks = << "on_devices_found" >>
  /\ lock = None
  /\ loopState = "none"
  /\ loopRunner = NoThread
  /\ tpc = [t \in Threads |-> "none"]
  /\ nthreads = 0
  /\ ldev = [t \in Threads |-> << >>]
  /\ idx = [t \in Threads |-> 0]
  /\ cb = [t \in Threads |-> None]
  /\ rest = [t \in Threads |-> 0]
  /\ cpc = [c \in Callers |-> "idle"]
  /\ joinT = [c \in Callers |-> NoThread]
  /\ rpc = "idle"
  /\ rcopy = << >>
  /\ got = [value |-> << >>, expected |-> << >>]
  /\ raw = [t \in Threads |-> << >>]
  /\ failed = [t \in Threads |-> FALSE]
  /\ calls = [t \in Threads |-> NoCalls]
  /\ stable = [t \in Threads |-> {}]
  /\ changed = [t \in Threads |-> FALSE]
  /\ deregistered = {}
  /\ lateCall = FALSE
  /\ startsSinceStop = 0
  /\ spawnedSinceStop = 0
  /\ stopped = FALSE
  /\ restedWhileStopping = FALSE
  /\ snap = << >>
  /\ scan_duration = DurationTicks
  /\ config = [scan_duration |-> DurationTicks, scan_interval |-> IntervalTicks,
               sleep_duration |-> 1]
  /\ persisted = config
  /\ upc = [u \in Updaters |-> "idle"]
  /\ payload = [u \in Updaters |-> [f \in Fields |-> Absent]]
  /\ merged = [u \in Updaters |-> config]
  /\ ret = [u \in Updaters |-> config]
  /\ pre = [u \in Updaters |-> Snapshot]
  /\ savedIn = [u \in Updaters |-> 0]
  /\ outcome = [u \in Updaters |-> "none"]
  /\ sample = [t \in Threads |-> NoRead]
  /\ usedInt = [t \in Threads |-> NoRead]
  /\ cfgAtStart = [t \in Threads |-> NoCadence]
  /\ rows = << >>
  /\ now = 0
  /\ clrpc = "idle"
  /\ clrBefore = 0
  /\ clrQuiet = TRUE
  /\ op = NoOp
  /\ sumpc = "idle"
  /\ sumStats = NoStats
  /\ sumAfter = NoOp
  /\ sumSeen = {}
  /\ txn = NoTxn
  /\ sinkRaised = FALSE

(* --------------------------- start_scanning ---------------------------- *)

\* start_scanning without its is_scanning test.
StartCheckUnguarded(c) ==
  /\ cpc[c] = "idle"
  /\ nthreads < MaxThreads
  /\ cpc' = [cpc EXCEPT ![c] = "start_set"]
  /\ stopped' = FALSE
  /\ UNCHANGED << scannerVars, loopVars, joinT, readerVars, raw, failed, fanHist,
                  startsSinceStop, spawnedSinceStop, restedWhileStopping, snap,
                  extVars >>

\* if self.is_scanning: return
StartCheck(c) ==
  /\ cpc[c] = "idle"
  /\ IF is_scanning
     THEN /\ startsSinceStop' = Bump(startsSinceStop, 2)
          /\ UNCHANGED << cpc, stopped >>
     ELSE /\ nthreads < MaxThreads
          /\ cpc' = [cpc EXCEPT ![c] = "start_set"]
          /\ stopped' = FALSE
          /\ UNCHANGED startsSinceStop
  /\ UNCHANGED << scannerVars, loopVars, joinT, readerVars, raw, failed, fanHist,
                  spawnedSinceStop, restedWhileStopping, snap, extVars >>

\* self.is_scanning = True
StartSet(c) ==
  /\ cpc[c] = "start_set"
  /\ is_scanning' = TRUE
  /\ cpc' = [cpc EXCEPT ![c] = "start_new"]
  /\ UNCHANGED << scanning_thread, scan_interval, devices, alias, callbacks, lock,
                  loopState, loopRunner, loopVars, joinT, readerVars, histVars,
                  extVars >>

\* self.scanning_thread = threading.Thread(target=self._scan_loop)
StartNew(c) ==
  /\ cpc[c] = "start_new"
  /\ nthreads < MaxThreads
  /\ nthreads' = nthreads + 1
  /\ scanning_thread' = nthreads + 1
  /\ tpc' = [tpc EXCEPT ![nthreads + 1] = "new"]
  /\ cpc' = [cpc EXCEPT ![c] = "start_run"]
  /\ UNCHANGED << is_scanning, scan_interval, devices, alias, callbacks, lock,
                  loopState, loopRunner, ldev, idx, cb, rest, joinT, readerVars,
                  histVars, extVars >>

\* self.scanning_thread.start(): the attribute is read again; starting a thread
\* that was already started raises RuntimeError out of start_scanning.
StartRun(c) ==
  /\ cpc[c] = "start_run"
  /\ cpc' = [cpc EXCEPT ![c] = "idle"]
  /\ IF tpc[scanning_thread] = "new"
     THEN /\ tpc' = [tpc EXCEPT ![scanning_thread] = "while"]
          /\ spawnedSinceStop' = Bump(spawnedSinceStop, MaxThreads)
          /\ startsSinceStop' = Bump(startsSinceStop, 2)
     ELSE UNCHANGED << tpc, spawnedSinceStop, startsSinceStop >>
  /\ UNCHANGED << scannerVars, nthreads, ldev, idx, cb, rest, joinT, readerVars,
                  raw, failed, fanHist, stopped, restedWhileStopping, snap,
                  extVars >>

(* ---------------------------- stop_scanning ---------------------------- *)

\* self.is_scanning = False
StopSet(c) ==
  /\ cpc[c] = "idle"
  /\ is_scanning' = FALSE
  /\ cpc' = [cpc EXCEPT ![c] = "stop_alive"]
  /\ startsSinceStop' = 0
  /\ spawnedSinceStop' = 0
  /\ UNCHANGED << scanning_thread, scan_interval, devices, alias, callbacks, lock,
                  loopState, loopRunner, loopVars, joinT, readerVars, raw, failed,
                  fanHist, stopped, restedWhileStopping, snap, extVars >>

\* stop_scanning that does not wait for the scan thread.
StopAliveNoJoin(c) ==
  /\ cpc[c] = "stop_alive"
  /\ cpc' = [cpc EXCEPT ![c] = "stop_close"]
  /\ UNCHANGED << scannerVars, loopVars, joinT, readerVars, histVars, extVars >>

\* if self.scanning_thread and self.scanning_thread.is_alive():
StopAlive(c) ==
  /\ cpc[c] = "stop_alive"
  /\ cpc' = [cpc EXCEPT ![c] =
               IF scanning_thread # NoThread /\ Alive(scanning_thread)
               THEN "stop_join" ELSE "stop_close"]
  /\ UNCHANGED << scannerVars, loopVars, joinT, readerVars, histVars, extVars >>

\* self.scanning_thread.join(): the attribute is read again; joining a thread
\* that was not started raises RuntimeError out of stop_scanning.
StopJoin(c) ==
  /\ cpc[c] = "stop_join"
  /\ IF tpc[scanning_thread] = "new"
     THEN /\ cpc' = [cpc EXCEPT ![c] = "idle"]
          /\ UNCHANGED joinT
     ELSE /\ cpc' = [cpc EXCEPT ![c] = "stop_joining"]
          /\ joinT' = [joinT EXCEPT ![c] = scanning_thread]
  /\ UNCHANGED << scannerVars, loopVars, readerVars, histVars, extVars >>

\* join() returns once the thread has finished.
StopJoined(c) ==
  /\ cpc[c] = "stop_joining"
  /\ tpc[joinT[c]] = "done"
  /\ cpc' = [cpc EXCEPT ![c] = "stop_close"]
  /\ joinT' = [joinT EXCEPT ![c] = NoThread]
  /\ UNCHANGED << scannerVars, loopVars, readerVars, histVars, extVars >>

\* if self._loop: self._loop.close(); closing a running event loop raises
\* RuntimeError out of stop_scanning. Either way the call ends here.
StopClose(c) ==
  /\ cpc[c] = "stop_close"
  /\ cpc' = [cpc EXCEPT ![c] = "idle"]
  /\ loopState' = IF loopState = "open" /\ loopRunner = NoThread
                  THEN "closed" ELSE loopState
  /\ stopped' = ~(loopState = "open" /\ loopRunner # NoThread)
  /\ UNCHANGED << is_scanning, scanning_thread, scan_interval, devices, alias,
                  callbacks, lock, loopRunner, loopVars, joinT, readerVars, raw,
                  failed, fanHist, startsSinceStop, spawnedSinceStop,
                  restedWhileStopping, snap, extVars >>

Start(c) == StartCheck(c) \/ StartSet(c) \/ StartNew(c) \/ StartRun(c)

Stop(c) ==
  StopSet(c) \/ StopAlive(c) \/ StopJoin(c) \/ StopJoined(c) \/ StopClose(c)

(* ------------------------------ _scan_loop ----------------------------- *)

\* while self.is_scanning:
LoopWhile(t) ==
  /\ tpc[t] = "while"
  /\ tpc' = [tpc EXCEPT ![t] = IF is_scanning THEN "scan" ELSE "done"]
  /\ failed' = [failed EXCEPT ![t] = failed[t] /\ is_scanning]
  /\ cfgAtStart' = [cfgAtStart EXCEPT ![t] =
                      IF is_scanning THEN Cadence(config) ELSE NoCadence]
  /\ UNCHANGED << scannerVars, nthreads, ldev, idx, cb, rest, ctlVars, readerVars,
                  raw, fanHist, lifeHist, snap, cfgVars, sample, usedInt,
                  storeVars, sumVars,
                  sinkVars >>

\* _scan_devices: create the event loop if there is none, then
\* run_until_complete, which raises at once on a closed loop or on a loop
\* another thread is running; the except clause returns []. Otherwise the
\* coroutine starts the BleakScanner and reads self.scan_duration for
\* asyncio.sleep.
ScanBegin(t) ==
  /\ tpc[t] = "scan"
  /\ LET st == IF loopState = "none" THEN "open" ELSE loopState
     IN  /\ loopState' = st
         /\ IF st = "closed" \/ loopRunner # NoThread
            THEN /\ tpc' = [tpc EXCEPT ![t] = "publish"]
                 /\ ldev' = [ldev EXCEPT ![t] = << >>]
                 /\ alias' = IF alias = t THEN NoThread ELSE alias
                 /\ failed' = [failed EXCEPT ![t] = TRUE]
                 /\ UNCHANGED << loopRunner, sample >>
            ELSE /\ tpc' = [tpc EXCEPT ![t] = "scanning"]
                 /\ loopRunner' = t
                 /\ sample' = [sample EXCEPT ![t] = scan_duration]
                 /\ UNCHANGED << ldev, alias, failed >>
  /\ UNCHANGED << is_scanning, scanning_thread, scan_interval, devices, callbacks,
                  lock, nthreads, idx, cb, rest, ctlVars, readerVars, raw, fanHist,
                  lifeHist, snap, cfgVars, usedInt, cfgAtStart, storeVars, sumVars,
                  sinkVars >>

\* _scan_devices_async returns list(detected_devices.values()) after the
\* detection callback ran on the readings rs of this pass.
ScanEnd(t, rs) ==
  /\ tpc[t] = "scanning"
  /\ tpc' = [tpc EXCEPT ![t] = "publish"]
  /\ ldev' = [ldev EXCEPT ![t] = ScanResult(rs)]
  /\ alias' = IF alias = t THEN NoThread ELSE alias
  /\ loopRunner' = NoThread
  /\ raw' = [raw EXCEPT ![t] = rs]
  /\ failed' = [failed EXCEPT ![t] = FALSE]
  /\ UNCHANGED << is_scanning, scanning_thread, scan_interval, devices, callbacks,
                  lock, loopState, nthreads, idx, cb, rest, ctlVars, readerVars,
                  fanHist, lifeHist, snap, extVars >>

\* The Observation Source raises during the pass: the thread dies if nothing
\* catches the exception.
ScanRaiseUncaught(t) ==
  /\ tpc[t] = "scanning"
  /\ tpc' = [tpc EXCEPT ![t] = "done"]
  /\ loopRunner' = NoThread
  /\ failed' = [failed EXCEPT ![t] = TRUE]
  /\ UNCHANGED << is_scanning, scanning_thread, scan_interval, devices, alias,
                  callbacks, lock, loopState, nthreads, ldev, idx, cb, rest,
                  ctlVars, readerVars, raw, fanHist, lifeHist, snap, extVars >>

\* The Observation Source raises during the pass and the devices detected
\* before the failure are returned.
ScanRaisePartial(t) ==
  /\ tpc[t] = "scanning"
  /\ tpc' = [tpc EXCEPT ![t] = "publish"]
  /\ ldev' = [ldev EXCEPT ![t] = << BluetoothDevice([address |-> "A", rssi |-> -60]) >>]
  /\ alias' = IF alias = t THEN NoThread ELSE alias
  /\ loopRunner' = NoThread
  /\ failed' = [failed EXCEPT ![t] = TRUE]
  /\ UNCHANGED << is_scanning, scanning_thread, scan_interval, devices, callbacks,
                  lock, loopState, nthreads, idx, cb, rest, ctlVars, readerVars,
                  raw, fanHist, lifeHist, snap, extVars >>

\* The Observation Source raises during the pass: except Exception in
\* _scan_devices_async logs and returns [].
ScanRaise(t) ==
  /\ tpc[t] = "scanning"
  /\ tpc' = [tpc EXCEPT ![t] = "publish"]
  /\ ldev' = [ldev EXCEPT ![t] = << >>]
  /\ alias' = IF alias = t THEN NoThread ELSE alias
  /\ loopRunner' = NoThread
  /\ failed' = [failed EXCEPT ![t] = TRUE]
  /\ UNCHANGED << is_scanning, scanning_thread, scan_interval, devices, callbacks,
                  lock, loopState, nthreads, idx, cb, rest, ctlVars, readerVars,
                  raw, fanHist, lifeHist, snap, extVars >>

\* Consumers registered exactly once.
Singles(cbs) ==
  {c \in Consumers : Cardinality({i \in 1..Len(cbs) : cbs[i] = c}) = 1}

\* A loop that starts the fan-out without assigning self.devices.
PublishAfterFanout(t) ==
  /\ tpc[t] = "publish"
  /\ lock = None
  /\ tpc' = [tpc EXCEPT ![t] = "fanout"]
  /\ idx' = [idx EXCEPT ![t] = 0]
  /\ calls' = [calls EXCEPT ![t] = NoCalls]
  /\ stable' = [stable EXCEPT ![t] = Singles(callbacks)]
  /\ changed' = [changed EXCEPT ![t] = FALSE]
  /\ UNCHANGED << is_scanning, scanning_thread, scan_interval, devices, alias,
                  callbacks, lock, loopState, loopRunner, nthreads, ldev, cb, rest,
                  ctlVars, readerVars, raw, failed, deregistered, lateCall,
                  lifeHist, snap, extVars >>

\* with self._lock: self.devices = devices; then iter(self.callbacks).
Publish(t) ==
  /\ tpc[t] = "publish"
  /\ lock = None
  /\ devices' = ldev[t]
  /\ alias' = t
  /\ tpc' = [tpc EXCEPT ![t] = "fanout"]
  /\ idx' = [idx EXCEPT ![t] = 0]
  /\ calls' = [calls EXCEPT ![t] = NoCalls]
  /\ stable' = [stable EXCEPT ![t] = Singles(callbacks)]
  /\ changed' = [changed EXCEPT ![t] = FALSE]
  /\ UNCHANGED << is_scanning, scanning_thread, scan_interval, callbacks, lock,
                  loopState, loopRunner, nthreads, ldev, cb, rest, ctlVars,
                  readerVars, raw, failed, deregistered, lateCall, lifeHist, snap,
                  extVars >>

\* for callback in self.callbacks: the list iterator compares its index with
\* the list's current length and fetches the element at that index; when the
\* list is exhausted the loop body ends and time.sleep(self.scan_interval)
\* begins: the interval is read now, and a negative one makes time.sleep raise
\* ValueError outside every try of _scan_loop, which ends the thread.
FanoutNext(t) ==
  /\ tpc[t] = "fanout"
  /\ IF idx[t] < Len(callbacks)
     THEN /\ cb' = [cb EXCEPT ![t] = callbacks[idx[t] + 1]]
          /\ idx' = [idx EXCEPT ![t] = idx[t] + 1]
          /\ tpc' = [tpc EXCEPT ![t] = "call"]
          /\ UNCHANGED << rest, ldev, alias, raw, usedInt >>
     ELSE /\ tpc' = [tpc EXCEPT ![t] =
                       IF scan_interval < 0 THEN "done" ELSE "sleep"]
          /\ rest' = [rest EXCEPT ![t] =
                        IF scan_interval < 0 THEN 0 ELSE scan_interval]
          /\ usedInt' = [usedInt EXCEPT ![t] = scan_interval]
          /\ idx' = [idx EXCEPT ![t] = 0]
          /\ ldev' = [ldev EXCEPT ![t] = << >>]
          /\ alias' = IF alias = t THEN NoThread ELSE alias
          /\ raw' = [raw EXCEPT ![t] = << >>]
          /\ UNCHANGED cb
  /\ UNCHANGED << is_scanning, scanning_thread, scan_interval, devices, callbacks,
                  lock, loopState, loopRunner, nthreads, ctlVars, readerVars,
                  failed, fanHist, lifeHist, snap, cfgVars, sample, cfgAtStart,
                  storeVars, sumVars,
                  sinkVars >>

\* The consumers whose call raises.
CallbackRaises(c) == c = "bad"

\* callback(devices) with no try around it: the exception of a raising
\* consumer reaches the outer handler and the rest of the list is skipped.
CallbackInvokeNoTry(t) ==
  /\ tpc[t] = "call"
  /\ calls' = [calls EXCEPT ![t][cb[t]] = Bump(calls[t][cb[t]], 2)]
  /\ lateCall' = (lateCall \/ cb[t] \in deregistered)
  /\ tpc' = [tpc EXCEPT ![t] = "fanout"]
  /\ cb' = [cb EXCEPT ![t] = None]
  /\ idx' = [idx EXCEPT ![t] = IF CallbackRaises(cb[t]) THEN MaxCallbacks ELSE idx[t]]
  /\ UNCHANGED << scannerVars, nthreads, ldev, rest, ctlVars, readerVars,
                  raw, failed, stable, changed, deregistered, lifeHist, snap,
                  extVars >>

\* try: callback(devices) except Exception: log; the iteration goes on. What
\* the consumer does with the devices is left out here; OnDevicesFound is the
\* call of bluemon's consumer with its effect on the store.
CallbackInvoke(t) ==
  /\ tpc[t] = "call"
  /\ calls' = [calls EXCEPT ![t][cb[t]] = Bump(calls[t][cb[t]], 2)]
  /\ lateCall' = (lateCall \/ cb[t] \in deregistered)
  /\ tpc' = [tpc EXCEPT ![t] = "fanout"]
  /\ cb' = [cb EXCEPT ![t] = None]
  /\ UNCHANGED << scannerVars, nthreads, ldev, idx, rest, ctlVars, readerVars,
                  raw, failed, stable, changed, deregistered, lifeHist, snap,
                  extVars >>

\* A stop_scanning call is blocked in join() on thread t.
JoinedOn(t) == \E c \in Callers : cpc[c] = "stop_joining" /\ joinT[c] = t

\* time.sleep(self.scan_interval): one tick of the rest goes by.
SleepTick(t) ==
  /\ tpc[t] = "sleep"
  /\ rest[t] > 0
  /\ rest' = [rest EXCEPT ![t] = rest[t] - 1]
  /\ restedWhileStopping' = (restedWhileStopping \/ JoinedOn(t))
  /\ UNCHANGED << scannerVars, tpc, nthreads, ldev, idx, cb, ctlVars, readerVars,
                  raw, failed, fanHist, startsSinceStop, spawnedSinceStop, stopped,
                  snap, extVars >>

\* time.sleep returns when the interval has elapsed.
SleepWake(t) ==
  /\ tpc[t] = "sleep"
  /\ rest[t] = 0
  /\ tpc' = [tpc EXCEPT ![t] = "while"]
  /\ calls' = [calls EXCEPT ![t] = NoCalls]
  /\ stable' = [stable EXCEPT ![t] = {}]
  /\ changed' = [changed EXCEPT ![t] = FALSE]
  /\ sample' = [sample EXCEPT ![t] = NoRead]
  /\ usedInt' = [usedInt EXCEPT ![t] = NoRead]
  /\ cfgAtStart' = [cfgAtStart EXCEPT ![t] = NoCadence]
  /\ UNCHANGED << scannerVars, nthreads, ldev, idx, cb, rest, ctlVars, readerVars,
                  raw, failed, deregistered, lateCall, lifeHist, snap, cfgVars,
                  storeVars, sumVars,
                  sinkVars >>

Loop(t, RS) ==
  \/ LoopWhile(t)
  \/ ScanBegin(t)
  \/ \E rs \in RS : ScanEnd(t, rs)
  \/ ScanRaise(t)
  \/ Publish(t)
  \/ FanoutNext(t)
  \/ CallbackInvoke(t)
  \/ SleepTick(t)
  \/ SleepWake(t)

(* ------------------- add_callback / remove_callback -------------------- *)

\* Thread t is delivering a pass to the consumers, or resting after it.
InPass(t) == tpc[t] \in {"fanout", "call", "sleep"}

\* What a registration change of consumer c does to the history.
NoteChange(c) ==
  /\ stable' = [t \in Threads |-> stable[t] \ {c}]
  /\ changed' = [t \in Threads |-> changed[t] \/ InPass(t)]

\* self.callbacks.insert(0, callback)
AddCallbackFirst(c) ==
  /\ Len(callbacks) < MaxCallbacks
  /\ callbacks' = << c >> \o callbacks
  /\ deregistered' = deregistered \ {c}
  /\ NoteChange(c)
  /\ UNCHANGED << is_scanning, scanning_thread, scan_interval, devices, alias, lock,
                  loopState, loopRunner, loopVars, ctlVars, readerVars, raw, failed,
                  calls, lateCall, lifeHist, snap, extVars >>

\* self.callbacks.append(callback)
AddCallback(c) ==
  /\ Len(callbacks) < MaxCallbacks
  /\ callbacks' = Append(callbacks, c)
  /\ deregistered' = deregistered \ {c}
  /\ NoteChange(c)
  /\ UNCHANGED << is_scanning, scanning_thread, scan_interval, devices, alias, lock,
                  loopState, loopRunner, loopVars, ctlVars, readerVars, raw, failed,
                  calls, lateCall, lifeHist, snap, extVars >>

\* list.remove: the first occurrence goes, the later elements move down.
RemoveFirst(cbs, c) ==
  LET k == CHOOSE i \in 1..Len(cbs) :
             cbs[i] = c /\ \A j \in 1..(i - 1) : cbs[j] # c
  IN  SubSeq(cbs, 1, k - 1) \o SubSeq(cbs, k + 1, Len(cbs))

\* if callback in self.callbacks: self.callbacks.remove(callback)
RemoveCallback(c) ==
  /\ IF c \in Range(callbacks)
     THEN /\ callbacks' = RemoveFirst(callbacks, c)
          /\ deregistered' = IF c \in Range(RemoveFirst(callbacks, c))
                             THEN deregistered ELSE deregistered \cup {c}
          /\ NoteChange(c)
     ELSE UNCHANGED << callbacks, deregistered, stable, changed >>
  /\ UNCHANGED << is_scanning, scanning_thread, scan_interval, devices, alias, lock,
                  loopState, loopRunner, loopVars, ctlVars, readerVars, raw, failed,
                  calls, lateCall, lifeHist, snap, extVars >>

(* --------------------- get_devices / clear_devices --------------------- *)

\* with self._lock: (get_devices enters)
GetDevicesAcquire ==
  /\ rpc = "idle"
  /\ lock = None
  /\ lock' = "reader"
  /\ rpc' = "copy"
  /\ rcopy' = << >>
  /\ snap' = devices
  /\ UNCHANGED << is_scanning, scanning_thread, scan_interval, devices, alias,
                  callbacks, loopState, loopRunner, loopVars, ctlVars, got, raw,
                  failed, fanHist, lifeHist, extVars >>

\* self.devices.copy(): the next element is copied.
GetDevicesCopy ==
  /\ rpc = "copy"
  /\ Len(rcopy) < Len(devices)
  /\ rcopy' = Append(rcopy, devices[Len(rcopy) + 1])
  /\ UNCHANGED << scannerVars, loopVars, ctlVars, rpc, got, histVars, extVars >>

\* return: the copy is complete, the lock is released.
GetDevicesReturn ==
  /\ rpc = "copy"
  /\ Len(rcopy) >= Len(devices)
  /\ lock' = None
  /\ rpc' = "idle"
  /\ got' = [value |-> rcopy, expected |-> snap]
  /\ rcopy' = << >>
  /\ UNCHANGED << is_scanning, scanning_thread, scan_interval, devices, alias,
                  callbacks, loopState, loopRunner, loopVars, ctlVars, histVars,
                  extVars >>

\* self.devices.clear() without taking self._lock.
ClearDevicesNoLock ==
  /\ devices' = << >>
  /\ ldev' = IF alias # NoThread THEN [ldev EXCEPT ![alias] = << >>] ELSE ldev
  /\ UNCHANGED << is_scanning, scanning_thread, scan_interval, alias, callbacks,
                  lock, loopState, loopRunner, tpc, nthreads, idx, cb, rest,
                  ctlVars, readerVars, histVars, extVars >>

\* with self._lock: self.devices.clear(). The list object is emptied in place:
\* a scan thread whose local devices is that same object sees it empty too.
ClearDevices ==
  /\ lock = None
  /\ devices' = << >>
  /\ ldev' = IF alias # NoThread THEN [ldev EXCEPT ![alias] = << >>] ELSE ldev
  /\ UNCHANGED << is_scanning, scanning_thread, scan_interval, alias, callbacks,
                  lock, loopState, loopRunner, tpc, nthreads, idx, cb, rest,
                  ctlVars, readerVars, histVars, extVars >>

GetDevices == GetDevicesAcquire \/ GetDevicesCopy \/ GetDevicesReturn

(* ------------------------ bluemon.update_config ------------------------ *)

\* update_config that keeps the previous value of a field it cannot convert.
UpdMergeLenient(u, p) ==
  /\ upc[u] = "idle"
  /\ payload' = [payload EXCEPT ![u] = p]
  /\ pre' = [pre EXCEPT ![u] = Snapshot]
  /\ savedIn' = [savedIn EXCEPT ![u] = 0]
  /\ ret' = [ret EXCEPT ![u] = config]
  /\ merged' = [merged EXCEPT ![u] =
                  [f \in Fields |->
                     IF IntRaises(p[f]) THEN config[f] ELSE IntOf(p[f], config[f])]]
  /\ upc' = [upc EXCEPT ![u] = "save"]
  /\ outcome' = [outcome EXCEPT ![u] = "none"]
  /\ UNCHANGED << scannerVars, loopVars, ctlVars, readerVars, histVars,
                  scan_duration, config, persisted, cadVars, storeVars, sumVars,
                  sinkVars >>

\* merged = AppConfig(scan_duration=int(new_cfg.get("scan_duration",
\* config.scan_duration)), ...): the three conversions run before the object
\* is built; a ValueError or TypeError leaves update_config, and
\* api_config_set logs and re-raises it.
UpdMerge(u, p) ==
  /\ upc[u] = "idle"
  /\ payload' = [payload EXCEPT ![u] = p]
  /\ pre' = [pre EXCEPT ![u] = Snapshot]
  /\ savedIn' = [savedIn EXCEPT ![u] = 0]
  /\ ret' = [ret EXCEPT ![u] = config]
  /\ IF \E f \in Fields : IntRaises(p[f])
     THEN /\ outcome' = [outcome EXCEPT ![u] = "error"]
          /\ UNCHANGED << merged, upc >>
     ELSE /\ merged' = [merged EXCEPT ![u] =
                          [f \in Fields |-> IntOf(p[f], config[f])]]
          /\ upc' = [upc EXCEPT ![u] = "save"]
          /\ outcome' = [outcome EXCEPT ![u] = "none"]
  /\ UNCHANGED << scannerVars, loopVars, ctlVars, readerVars, histVars,
                  scan_duration, config, persisted, cadVars, storeVars, sumVars,
                  sinkVars >>

\* save_config(config): the file is rewritten from the config in force.
UpdSavePrevious(u) ==
  /\ upc[u] = "save"
  /\ persisted' = config
  /\ savedIn' = [savedIn EXCEPT ![u] = Bump(savedIn[u], 2)]
  /\ upc' = [upc EXCEPT ![u] = "assign"]
  /\ UNCHANGED << scannerVars, loopVars, ctlVars, readerVars, histVars,
                  scan_duration, config, payload, merged, ret, pre, outcome,
                  cadVars, storeVars, sumVars, sinkVars >>

\* save_config(merged): config.json is rewritten.
UpdSave(u) ==
  /\ upc[u] = "save"
  /\ persisted' = merged[u]
  /\ savedIn' = [savedIn EXCEPT ![u] = Bump(savedIn[u], 2)]
  /\ upc' = [upc EXCEPT ![u] = "assign"]
  /\ UNCHANGED << scannerVars, loopVars, ctlVars, readerVars, histVars,
                  scan_duration, config, payload, merged, ret, pre, outcome,
                  cadVars, storeVars, sumVars,
                  sinkVars >>

\* config = merged
UpdAssign(u) ==
  /\ upc[u] = "assign"
  /\ config' = merged[u]
  /\ upc' = [upc EXCEPT ![u] = "apply_duration"]
  /\ UNCHANGED << scannerVars, loopVars, ctlVars, readerVars, histVars,
                  scan_duration, persisted, payload, merged, ret, pre, savedIn,
                  outcome, cadVars, storeVars, sumVars,
                  sinkVars >>

\* scanner.scan_duration = config.scan_duration
UpdApplyDuration(u) ==
  /\ upc[u] = "apply_duration"
  /\ scan_duration' = config["scan_duration"]
  /\ upc' = [upc EXCEPT ![u] = "apply_interval"]
  /\ UNCHANGED << scannerVars, loopVars, ctlVars, readerVars, histVars,
                  config, persisted, payload, merged, ret, pre, savedIn,
                  outcome, cadVars, storeVars, sumVars,
                  sinkVars >>

\* scanner.scan_interval = config.scan_interval
UpdApplyInterval(u) ==
  /\ upc[u] = "apply_interval"
  /\ scan_interval' = config["scan_interval"]
  /\ upc' = [upc EXCEPT ![u] = "return"]
  /\ UNCHANGED << is_scanning, scanning_thread, devices, alias, callbacks, lock,
                  loopState, loopRunner, loopVars, ctlVars, readerVars, histVars,
                  scan_duration, config, persisted, payload, merged, ret, pre,
                  savedIn, outcome, cadVars, storeVars, sumVars,
                  sinkVars >>

\* return get_config()
UpdReturn(u) ==
  /\ upc[u] = "return"
  /\ ret' = [ret EXCEPT ![u] = config]
  /\ outcome' = [outcome EXCEPT ![u] = "ok"]
  /\ upc' = [upc EXCEPT ![u] = "idle"]
  /\ UNCHANGED << scannerVars, loopVars, ctlVars, readerVars, histVars,
                  scan_duration, config, persisted, payload, merged, pre,
                  savedIn, cadVars, storeVars, sumVars,
                  sinkVars >>

UpdateConfig(u, P) ==
  \/ \E p \in P : UpdMerge(u, p)
  \/ UpdSave(u)
  \/ UpdAssign(u)
  \/ UpdApplyDuration(u)
  \/ UpdApplyInterval(u)
  \/ UpdReturn(u)

(* ------------------------------ the store ------------------------------ *)

\* The row insert_scan_results writes for a device: d.address,
\* int(d.rssi or 0), which is d.rssi for the int a BluetoothDevice holds, and
\* d.timestamp.isoformat(), whose text order is the order of the timestamps.
Row(d) == [address |-> d.address, rssi |-> d.rssi, ts |-> d.timestamp]

RowsOf(batch) == [i \in 1..Len(batch) |-> Row(batch[i])]

\* The pairs << i, j >> of indices of rs.
Pairs(rs) == (1..Len(rs)) \X (1..Len(rs))

\* The sequence rs rearranged so that the element at index i comes before the
\* one at index j whenever << i, j >> is in before, a strict total order on
\* the indices of rs.
SortedBy(rs, before) ==
  LET n == Len(rs)
      pos(i) == 1 + Cardinality({j \in 1..n : << j, i >> \in before})
  IN  [k \in 1..n |-> rs[CHOOSE i \in 1..n : pos(i) = k]]

\* LIMIT n: a negative n is no limit.
Limit(n, s) == IF n < 0 \/ n >= Len(s) THEN s ELSE SubSeq(s, 1, n)

\* ORDER BY ts ASC.
RecentOrderAscending(rs) ==
  SortedBy(rs, {p \in Pairs(rs) :
    rs[p[1]].ts < rs[p[2]].ts \/ (rs[p[1]].ts = rs[p[2]].ts /\ p[1] < p[2])})

\* ORDER BY ts DESC by a stable sort of the table read in id order.
RecentOrderStable(rs) ==
  SortedBy(rs, {p \in Pairs(rs) :
    rs[p[1]].ts > rs[p[2]].ts \/ (rs[p[1]].ts = rs[p[2]].ts /\ p[1] < p[2])})

\* ORDER BY ts DESC: SQLite reads idx_device_scans_ts, whose entries are
\* ordered by (ts, id), backwards.
RecentOrder(rs) ==
  SortedBy(rs, {p \in Pairs(rs) :
    rs[p[1]].ts > rs[p[2]].ts \/ (rs[p[1]].ts = rs[p[2]].ts /\ p[1] > p[2])})

\* SELECT ... FROM device_scans ORDER BY ts DESC LIMIT ?
recent_scans(rs, limit) == Limit(limit, RecentOrder(rs))

\* Text order of the addresses.
AddrRank(a) == IF a = "A" THEN 1 ELSE 2

\* WHERE datetime(ts) >= datetime('now', '-h hours')
InWindow(rs, nw, h) == SelectSeq(rs, LAMBDA r : r.ts >= nw - h)

\* ORDER BY address, ts
TimelineOrder(q) ==
  SortedBy(q, {p \in Pairs(q) :
    \/ AddrRank(q[p[1]].address) < AddrRank(q[p[2]].address)
    \/ /\ q[p[1]].address = q[p[2]].address
       /\ \/ q[p[1]].ts < q[p[2]].ts
          \/ q[p[1]].ts = q[p[2]].ts /\ p[1] < p[2]})

\* LIMIT 10000
TimelineCap == 10000

\* The addresses of q in the order of their first row.
Firsts(q) ==
  LET F == {i \in 1..Len(q) : \A j \in 1..(i - 1) : q[j].address # q[i].address}
  IN  [k \in 1..Cardinality(F) |->
         q[CHOOSE i \in F : Cardinality({j \in F : j < i}) = k - 1].address]

\* devices[address]["detections"] after every row of q was appended.
Detections(q, a) ==
  LET mine == SelectSeq(q, LAMBDA r : r.address = a)
  IN  [k \in 1..Len(mine) |-> [timestamp |-> mine[k].ts, rssi |-> mine[k].rssi]]

\* A grouping that starts from an entry for every known address.
GroupAllAddresses(q) ==
  LET known == << "A", "B" >>
  IN  [k \in 1..Len(known) |->
         [address |-> known[k], detections |-> Detections(q, known[k])]]

\* for row in cur.fetchall(): the entry of an address is created at its first
\* row, and every row is appended to the entry of its address.
Group(q) ==
  [k \in 1..Len(Firsts(q)) |->
     [address |-> Firsts(q)[k], detections |-> Detections(q, Firsts(q)[k])]]

\* get_timeline_data(hours)["devices"] at clock nw, with LIMIT cap.
timeline_capped(rs, nw, h, cap) ==
  Group(Limit(cap, TimelineOrder(InWindow(rs, nw, h))))

\* get_timeline_data(hours)["devices"] at clock nw.
get_timeline_data(rs, nw, h) == timeline_capped(rs, nw, h, TimelineCap)

\* MIN(ts), MAX(ts): NULL on an empty table.
MinTs(rs) ==
  IF rs = << >> THEN NoTs
  ELSE CHOOSE m \in {rs[i].ts : i \in 1..Len(rs)} :
         \A i \in 1..Len(rs) : m <= rs[i].ts

MaxTs(rs) ==
  IF rs = << >> THEN NoTs
  ELSE CHOOSE m \in {rs[i].ts : i \in 1..Len(rs)} :
         \A i \in 1..Len(rs) : m >= rs[i].ts

\* A first query that counts the distinct addresses as the records.
SummaryStatsDistinctOnly(rs) ==
  [total_records |-> Cardinality({rs[i].address : i \in 1..Len(rs)}),
   unique_devices |-> Cardinality({rs[i].address : i \in 1..Len(rs)}),
   first_seen |-> MinTs(rs),
   last_seen |-> MaxTs(rs)]

\* SELECT COUNT(*), COUNT(DISTINCT address), MIN(ts), MAX(ts)
\* FROM device_scans
summary_stats(rs) ==
  [total_records |-> Len(rs),
   unique_devices |-> Cardinality({rs[i].address : i \in 1..Len(rs)}),
   first_seen |-> MinTs(rs),
   last_seen |-> MaxTs(rs)]

\* The addresses in text order.
AddressOrder == << "A", "B" >>

\* SELECT address, COUNT(*) as cnt ... GROUP BY address: SQLite reads
\* idx_device_scans_address, so the groups come in address order.
Groups(rs) ==
  LET present == SelectSeq(AddressOrder,
                           LAMBDA a : \E i \in 1..Len(rs) : rs[i].address = a)
  IN  [k \in 1..Len(present) |->
         [address |-> present[k],
          count |-> Cardinality({i \in 1..Len(rs) : rs[i].address = present[k]})]]

\* ORDER BY cnt DESC that puts the later of two equal groups first.
TopOrderTiesReversed(g) ==
  SortedBy(g, {p \in Pairs(g) :
    g[p[1]].count > g[p[2]].count
      \/ (g[p[1]].count = g[p[2]].count /\ p[1] > p[2])})

\* ORDER BY cnt DESC: with a LIMIT, SQLite sorts in a temporary b-tree whose
\* key ends with a sequence number, so equal counts keep the order the groups
\* came in.
TopOrder(g) ==
  SortedBy(g, {p \in Pairs(g) :
    g[p[1]].count > g[p[2]].count
      \/ (g[p[1]].count = g[p[2]].count /\ p[1] < p[2])})

\* LIMIT 5
TopDevicesCap == 5

\* The second query of analytics_summary with LIMIT cap.
top_devices(rs, cap) == Limit(cap, TopOrder(Groups(rs)))

\* What analytics_summary returns from the row stats of its first query and
\* the rows top of its second.
SummaryResult(stats, top) ==
  [total_records |-> stats.total_records,
   unique_devices |-> stats.unique_devices,
   top_devices |-> top,
   first_seen |-> stats.first_seen,
   last_seen |-> stats.last_seen]

\* analytics_summary() when both queries read the table rs.
summary_at(rs, cap) == SummaryResult(summary_stats(rs), top_devices(rs, cap))

analytics_summary(rs) == summary_at(rs, TopDevicesCap)

\* The tables the store has held during an analytics_summary call in
\* progress whose first query would have read what the call's did, after a
\* write that leaves the table rs: the tables the result of the call can be
\* the summary of.
Seen(rs) ==
  IF sumpc = "top" /\ summary_stats(rs) = sumStats
  THEN sumSeen \cup {rs}
  ELSE sumSeen

\* The operation before this one, if it wrote to the table.
Prev(o) == IF o.name \in {"insert", "clear"} THEN o ELSE NoOp

\* insert_scan_results that records a pass without devices as a row.
InsertScanResultsMarker(batch) ==
  /\ Len(rows) + Len(batch) <= MaxRows
  /\ Len(rows) < MaxRows
  /\ rows' = IF batch = << >>
             THEN Append(rows, [address |-> "A", rssi |-> 0, ts |-> now])
             ELSE rows \o RowsOf(batch)
  /\ clrQuiet' = IF clrpc = "delete" THEN FALSE ELSE clrQuiet
  /\ op' = [name |-> "insert", batch |-> batch, before |-> rows]
  /\ sumSeen' = Seen(rows')
  /\ UNCHANGED << scannerVars, loopVars, ctlVars, readerVars, histVars, cfgVars,
                  cadVars, now, clrpc, clrBefore, sumpc, sumStats, sumAfter,
                  sinkVars >>

\* insert_scan_results(devices): returns at once on an empty list, otherwise
\* one executemany and one commit on a connection of its own.
InsertScanResults(batch) ==
  /\ Len(rows) + Len(batch) <= MaxRows
  /\ IF batch = << >>
     THEN UNCHANGED << rows, clrQuiet >>
     ELSE /\ rows' = rows \o RowsOf(batch)
          /\ clrQuiet' = IF clrpc = "delete" THEN FALSE ELSE clrQuiet
  /\ op' = [name |-> "insert", batch |-> batch, before |-> rows]
  /\ sumSeen' = Seen(rows')
  /\ UNCHANGED << scannerVars, loopVars, ctlVars, readerVars, histVars, cfgVars,
                  cadVars, now, clrpc, clrBefore, sumpc, sumStats, sumAfter,
                  sinkVars >>

\* The steps at which an insert_scan_results call can raise: FailNever, the
\* k-th row of executemany, or, one past the batch, the commit.
FailNever == 0
FailPoints == 0..(MaxBatch + 1)

\* insert_scan_results(devices): returns at once on an empty list; otherwise
\* the rows are built, a connection is opened, and executemany begins: sqlite3
\* opens a transaction before the first INSERT. failAt is the step at which
\* this call is going to raise.
InsertBegin(batch, failAt) ==
  /\ txn.state # "open"
  /\ Len(rows) + Len(batch) <= MaxRows
  /\ failAt <= Len(batch) + 1
  /\ txn' = [state |-> IF batch = << >> THEN "returned" ELSE "open",
             batch |-> batch, before |-> rows, n |-> 0,
             failAt |-> IF batch = << >> THEN FailNever ELSE failAt]
  /\ UNCHANGED << scannerVars, loopVars, ctlVars, readerVars, histVars, cfgVars,
                  cadVars, storeVars, sumVars, sinkRaised >>

\* executemany with the connection in autocommit mode: every row is in the
\* table as soon as it is written.
InsertRowAutocommit ==
  /\ txn.state = "open"
  /\ txn.n < Len(txn.batch)
  /\ IF txn.failAt = txn.n + 1
     THEN /\ txn' = [txn EXCEPT !.state = "rolledback"]
          /\ UNCHANGED << rows, sumSeen >>
     ELSE /\ txn' = [txn EXCEPT !.n = txn.n + 1]
          /\ rows' = Append(rows, Row(txn.batch[txn.n + 1]))
          /\ sumSeen' = Seen(rows')
  /\ UNCHANGED << scannerVars, loopVars, ctlVars, readerVars, histVars, cfgVars,
                  cadVars, now, clrpc, clrBefore, clrQuiet, op, sumpc, sumStats,
                  sumAfter, sinkRaised >>

\* executemany writes the next row inside the open transaction, where no
\* other connection sees it; if the row raises, the exception leaves the with
\* block, whose exit rolls the transaction back.
InsertRow ==
  /\ txn.state = "open"
  /\ txn.n < Len(txn.batch)
  /\ txn' = IF txn.failAt = txn.n + 1
            THEN [txn EXCEPT !.state = "rolledback"]
            ELSE [txn EXCEPT !.n = txn.n + 1]
  /\ UNCHANGED << scannerVars, loopVars, ctlVars, readerVars, histVars, cfgVars,
                  cadVars, storeVars, sumVars, sinkRaised >>

\* con.commit(): the rows of the batch become visible together; a commit
\* that raises leaves the with block, whose exit rolls back.
InsertCommit ==
  /\ txn.state = "open"
  /\ txn.n = Len(txn.batch)
  /\ IF txn.failAt = Len(txn.batch) + 1
     THEN /\ txn' = [txn EXCEPT !.state = "rolledback"]
          /\ UNCHANGED << rows, clrQuiet, op, sumSeen >>
     ELSE /\ txn' = [txn EXCEPT !.state = "committed"]
          /\ rows' = rows \o RowsOf(txn.batch)
          /\ clrQuiet' = IF clrpc = "delete" THEN FALSE ELSE clrQuiet
          /\ op' = [name |-> "insert", batch |-> txn.batch, before |-> rows]
          /\ sumSeen' = Seen(rows')
  /\ UNCHANGED << scannerVars, loopVars, ctlVars, readerVars, histVars, cfgVars,
                  cadVars, now, clrpc, clrBefore, sumpc, sumStats, sumAfter,
                  sinkRaised >>

\* insert_scan_results(devices), statement by statement.
InsertTxn(B) ==
  \/ \E batch \in B : \E failAt \in FailPoints : InsertBegin(batch, failAt)
  \/ InsertRow
  \/ InsertCommit

\* recent_scans(limit)
RecentScans(limit) ==
  /\ op' = [name |-> "recent", limit |-> limit, out |-> recent_scans(rows, limit),
            after |-> Prev(op), table |-> rows]
  /\ UNCHANGED << scannerVars, loopVars, ctlVars, readerVars, histVars, cfgVars,
                  cadVars, rows, now, clrpc, clrBefore, clrQuiet, sumVars,
                  sinkVars >>

\* get_timeline_data(hours) with LIMIT cap: one SELECT, then the grouping
\* loop over its rows.
TimelineQuery(h, cap) ==
  /\ op' = [name |-> "timeline", hours |-> h, at |-> now, cap |-> cap,
            out |-> timeline_capped(rows, now, h, cap), table |-> rows]
  /\ UNCHANGED << scannerVars, loopVars, ctlVars, readerVars, histVars, cfgVars,
                  cadVars, rows, now, clrpc, clrBefore, clrQuiet, sumVars,
                  sinkVars >>

\* get_timeline_data(hours)
GetTimelineData(h) == TimelineQuery(h, TimelineCap)

\* analytics_summary: the first SELECT and fetchone. sqlite3 opens no
\* transaction for a SELECT, so the statement reads the table as it is now and
\* holds nothing afterwards.
SummaryStats ==
  /\ sumpc = "idle"
  /\ sumpc' = "top"
  /\ sumStats' = summary_stats(rows)
  /\ sumAfter' = Prev(op)
  /\ sumSeen' = {rows}
  /\ UNCHANGED << scannerVars, loopVars, ctlVars, readerVars, histVars, cfgVars,
                  cadVars, storeVars, sinkVars >>

\* analytics_summary: the second SELECT, with LIMIT cap, fetchall and return.
SummaryTop(cap) ==
  /\ sumpc = "top"
  /\ sumpc' = "idle"
  /\ op' = [name |-> "summary", cap |-> cap,
            out |-> SummaryResult(sumStats, top_devices(rows, cap)),
            after |-> sumAfter, points |-> sumSeen, table |-> rows]
  /\ sumStats' = NoStats
  /\ sumAfter' = NoOp
  /\ sumSeen' = {}
  /\ UNCHANGED << scannerVars, loopVars, ctlVars, readerVars, histVars, cfgVars,
                  cadVars, rows, now, clrpc, clrBefore, clrQuiet, sinkVars >>

\* analytics_summary()
AnalyticsSummary == SummaryStats \/ SummaryTop(TopDevicesCap)

\* The steps at which health_check can fail: opening the connection, the
\* COUNT query, the MAX query.
HealthFailures == {"none", "connect", "count", "max"}

\* What health_check returns when both queries ran on table rs.
Healthy(rs) ==
  [status |-> "healthy", database |-> "connected",
   total_records |-> Len(rs), last_scan |-> MaxTs(rs)]

\* What the except clause of health_check returns.
Unhealthy == [status |-> "unhealthy", database |-> "error"]

\* health_check with no try around its queries.
HealthCheckNoTry(fail) ==
  /\ op' = [name |-> "health", fail |-> fail, table |-> rows,
            raised |-> fail # "none",
            out |-> IF fail = "none" THEN Healthy(rows) ELSE Unhealthy,
            code |-> IF fail = "none" THEN 200 ELSE 500]
  /\ UNCHANGED << scannerVars, loopVars, ctlVars, readerVars, histVars, cfgVars,
                  cadVars, rows, now, clrpc, clrBefore, clrQuiet, sumVars,
                  sinkVars >>

\* health_check(), called by api_health: the connection and both queries are
\* inside try; except Exception returns the unhealthy record. api_health
\* answers 200 for a healthy record and 503 otherwise.
HealthCheck(fail) ==
  /\ op' = [name |-> "health", fail |-> fail, table |-> rows,
            raised |-> FALSE,
            out |-> IF fail = "none" THEN Healthy(rows) ELSE Unhealthy,
            code |-> IF fail = "none" THEN 200 ELSE 503]
  /\ UNCHANGED << scannerVars, loopVars, ctlVars, readerVars, histVars, cfgVars,
                  cadVars, rows, now, clrpc, clrBefore, clrQuiet, sumVars,
                  sinkVars >>

\* clear_all_data: SELECT COUNT(*) FROM device_scans; records_before is kept.
\* The statement is a read of its own: no transaction stays open after it.
ClearCount ==
  /\ clrpc = "idle"
  /\ clrpc' = "delete"
  /\ clrBefore' = Len(rows)
  /\ clrQuiet' = TRUE
  /\ UNCHANGED << scannerVars, loopVars, ctlVars, readerVars, histVars, cfgVars,
                  cadVars, rows, now, op, sumVars, sinkVars >>

\* clear_all_data whose cursor does not count the rows it deletes.
ClearDeleteUncounted ==
  /\ clrpc = "delete"
  /\ rows' = << >>
  /\ clrpc' = "idle"
  /\ op' = [name |-> "clear", records_deleted |-> -1,
            records_before |-> clrBefore, held |-> Len(rows), quiet |-> clrQuiet]
  /\ sumSeen' = Seen(rows')
  /\ UNCHANGED << scannerVars, loopVars, ctlVars, readerVars, histVars, cfgVars,
                  cadVars, now, clrBefore, clrQuiet, sumpc, sumStats,
                  sumAfter, sinkVars >>

\* clear_all_data: DELETE FROM device_scans; deleted_count = cur.rowcount;
\* con.commit(); return.
ClearDelete ==
  /\ clrpc = "delete"
  /\ rows' = << >>
  /\ clrpc' = "idle"
  /\ op' = [name |-> "clear", records_deleted |-> Len(rows),
            records_before |-> clrBefore, held |-> Len(rows), quiet |-> clrQuiet]
  /\ sumSeen' = Seen(rows')
  /\ UNCHANGED << scannerVars, loopVars, ctlVars, readerVars, histVars, cfgVars,
                  cadVars, now, clrBefore, clrQuiet, sumpc, sumStats,
                  sumAfter, sinkVars >>

ClearAllData == ClearCount \/ ClearDelete

\* An hour goes by.
Tick ==
  /\ now < MaxTime
  /\ now' = now + 1
  /\ UNCHANGED << scannerVars, loopVars, ctlVars, readerVars, histVars, cfgVars,
                  cadVars, rows, clrpc, clrBefore, clrQuiet, op, sumVars,
                  sinkVars >>

(* ------------------- on_devices_found and the store -------------------- *)

\* The devices ds as the detection callback built them at clock nw.
Stamped(ds, nw) ==
  [i \in 1..Len(ds) |->
     [address |-> ds[i].address, rssi |-> ds[i].rssi, timestamp |-> nw]]

\* callback(devices) for on_devices_found with no try in the fan-out loop and
\* none around it: when the append raises, the thread ends.
OnDevicesFoundNoTry(t) ==
  /\ tpc[t] = "call"
  /\ cb[t] = "on_devices_found"
  /\ calls' = [calls EXCEPT ![t][cb[t]] = Bump(calls[t][cb[t]], 2)]
  /\ lateCall' = (lateCall \/ cb[t] \in deregistered)
  /\ cb' = [cb EXCEPT ![t] = None]
  /\ LET batch == Stamped(ldev[t], now)
     IN  \E raises \in BOOLEAN :
           /\ batch = << >> => ~raises
           /\ Len(rows) + Len(batch) > MaxRows => raises
           /\ rows' = IF raises THEN rows ELSE rows \o RowsOf(batch)
           /\ tpc' = [tpc EXCEPT ![t] = IF raises THEN "done" ELSE "fanout"]
           /\ sinkRaised' = (sinkRaised \/ raises)
           /\ op' = [name |-> "sink", batch |-> batch, before |-> rows,
                     raised |-> raises, scan_failed |-> failed[t]]
  /\ clrQuiet' = IF clrpc = "delete" /\ rows' # rows THEN FALSE ELSE clrQuiet
  /\ sumSeen' = Seen(rows')
  /\ UNCHANGED << scannerVars, nthreads, ldev, idx, rest, ctlVars, readerVars,
                  raw, failed, stable, changed, deregistered, lifeHist, snap,
                  cfgVars, cadVars, now, clrpc, clrBefore, sumpc, sumStats,
                  sumAfter, txn >>

\* try: callback(devices) except Exception: log, for on_devices_found, which
\* hands the list to store.insert_scan_results: an empty list returns at
\* once; otherwise the batch is committed as a whole or the call raises and
\* leaves the table as it was (a store that cannot hold the batch always
\* raises). The exception is caught in the fan-out loop and the iteration
\* goes on.
OnDevicesFound(t) ==
  /\ tpc[t] = "call"
  /\ cb[t] = "on_devices_found"
  /\ calls' = [calls EXCEPT ![t][cb[t]] = Bump(calls[t][cb[t]], 2)]
  /\ lateCall' = (lateCall \/ cb[t] \in deregistered)
  /\ tpc' = [tpc EXCEPT ![t] = "fanout"]
  /\ cb' = [cb EXCEPT ![t] = None]
  /\ LET batch == Stamped(ldev[t], now)
     IN  \E raises \in BOOLEAN :
           /\ batch = << >> => ~raises
           /\ Len(rows) + Len(batch) > MaxRows => raises
           /\ rows' = IF raises THEN rows ELSE rows \o RowsOf(batch)
           /\ sinkRaised' = (sinkRaised \/ raises)
           /\ op' = [name |-> "sink", batch |-> batch, before |-> rows,
                     raised |-> raises, scan_failed |-> failed[t]]
  /\ clrQuiet' = IF clrpc = "delete" /\ rows' # rows THEN FALSE ELSE clrQuiet
  /\ sumSeen' = Seen(rows')
  /\ UNCHANGED << scannerVars, nthreads, ldev, idx, rest, ctlVars, readerVars,
                  raw, failed, stable, changed, deregistered, lifeHist, snap,
                  cfgVars, cadVars, now, clrpc, clrBefore, sumpc, sumStats,
                  sumAfter, txn >>

\* _scan_loop of the scanner bluemon.py runs, whose only consumer is
\* on_devices_found.
SinkLoop(t, RS) ==
  \/ LoopWhile(t)
  \/ ScanBegin(t)
  \/ \E rs \in RS : ScanEnd(t, rs)
  \/ ScanRaise(t)
  \/ Publish(t)
  \/ FanoutNext(t)
  \/ OnDevicesFound(t)
  \/ SleepTick(t)
  \/ SleepWake(t)

(* ----------------------------- specifications -------------------------- *)

\* bluemon.py: the main thread alone starts and stops the scanner.
Next ==
  \/ Start("main")
  \/ Stop("main")
  \/ \E t \in Threads : Loop(t, ReadingSeqs)

Spec == Init /\ [][Next]_vars

\* The same threads, the scan threads scheduled fairly: a scan thread that can
\* take a step, or whose sleep has time left to run, eventually moves on.
LiveNext ==
  \/ Start("main")
  \/ Stop("main")
  \/ \E t \in Threads : Loop(t, FewReadingSeqs)

LiveSpec ==
  /\ Init
  /\ [][LiveNext]_vars
  /\ \A t \in Threads : WF_vars(Loop(t, FewReadingSeqs))

\* Two threads call start_scanning and stop_scanning.
ConcNext ==
  \/ \E c \in Callers : Start(c) \/ Stop(c)
  \/ \E t \in Threads : Loop(t, FewReadingSeqs)

ConcSpec == Init /\ [][ConcNext]_vars

\* The scanner runs while another thread registers and deregisters consumers.
FanNext ==
  \/ Start("main")
  \/ \E t \in Threads : Loop(t, FewReadingSeqs)
  \/ \E c \in Consumers : AddCallback(c) \/ RemoveCallback(c)

FanSpec == Init /\ [][FanNext]_vars

\* The scanner runs while other threads read and clear the shared state.
ReadNext ==
  \/ Start("main")
  \/ \E t \in Threads : Loop(t, FewReadingSeqs)
  \/ GetDevices
  \/ ClearDevices

ReadSpec == Init /\ [][ReadNext]_vars

\* The scanner runs while a request thread applies new cadence values.
CadenceNext ==
  \/ Start("main")
  \/ \E t \in Threads : Loop(t, FewReadingSeqs)
  \/ UpdateConfig("web1", CadencePayloads)

CadenceSpec == Init /\ [][CadenceNext]_vars

\* One request thread posts bodies of every kind to /api/config.
CfgNext == UpdateConfig("web1", Payloads)

CfgSpec == Init /\ [][CfgNext]_vars

\* Two request threads of the waitress pool post to /api/config at once; no
\* lock orders the statements of update_config.
TwoCfgNext == \E u \in Updaters : UpdateConfig(u, OneFieldPayloads)

TwoCfgSpec == Init /\ [][TwoCfgNext]_vars

\* The scan thread appends batches while request threads ask for the most
\* recent rows.
StoreNext ==
  \/ \E batch \in Batches : InsertScanResults(batch)
  \/ \E limit \in Limits : RecentScans(limit)

StoreSpec == Init /\ [][StoreNext]_vars

\* The scan thread appends batches while time goes by and request threads ask
\* for the timeline.
TimelineNext ==
  \/ \E batch \in Batches : InsertScanResults(batch)
  \/ \E h \in Hours : GetTimelineData(h)
  \/ Tick

TimelineSpec == Init /\ [][TimelineNext]_vars

\* The scan thread appends its passes, stamped with the clock, while time goes
\* by and request threads ask for the summary and the timeline.
SummaryNext ==
  \/ \E batch \in StampedBatches(now) : InsertScanResults(batch)
  \/ AnalyticsSummary
  \/ \E h \in Hours : GetTimelineData(h)
  \/ Tick

SummarySpec == Init /\ [][SummaryNext]_vars

\* The same with the LIMIT of the two capped queries scaled down to SmallCap,
\* so that the table holds more addresses, and the window more rows, than
\* the cap.
CapNext ==
  \/ \E batch \in StampedBatches(now) : InsertScanResults(batch)
  \/ SummaryStats
  \/ SummaryTop(SmallCap)
  \/ \E h \in Hours : TimelineQuery(h, SmallCap)
  \/ Tick

CapSpec == Init /\ [][CapNext]_vars

\* The scan thread appends its passes, any of which may raise at any of its
\* steps, while request threads read the store.
TxnNext ==
  \/ InsertTxn(StampedBatches(now))
  \/ \E limit \in Limits : RecentScans(limit)
  \/ \E h \in Hours : GetTimelineData(h)
  \/ AnalyticsSummary

TxnSpec == Init /\ [][TxnNext]_vars

\* The scan thread appends its passes while time goes by and a monitor asks
\* for the health of a store that may fail.
HealthNext ==
  \/ \E batch \in StampedBatches(now) : InsertScanResults(batch)
  \/ \E fail \in HealthFailures : HealthCheck(fail)
  \/ Tick

HealthSpec == Init /\ [][HealthNext]_vars

\* bluemon.py: the scanner runs and its consumer on_devices_found appends
\* every pass to a store that may fail.
SinkNext ==
  \/ Start("main")
  \/ \E t \in Threads : SinkLoop(t, SinkReadingSeqs)

SinkSpec == Init /\ [][SinkNext]_vars

\* bluemon.py's scanner runs while a request thread calls clear_devices
\* (POST /api/clear).
SinkClearNext ==
  \/ Start("main")
  \/ \E t \in Threads : SinkLoop(t, SinkReadingSeqs)
  \/ ClearDevices

SinkClearSpec == Init /\ [][SinkClearNext]_vars

\* The scan thread appends batches while a request thread clears the store
\* and asks for the summary.
ClearNext ==
  \/ \E batch \in FewBatches : InsertScanResults(batch)
  \/ ClearAllData
  \/ AnalyticsSummary

ClearSpec == Init /\ [][ClearNext]_vars

(* ------------------------------- claims -------------------------------- *)

AliveThreads == {t \in Threads : Alive(t)}

\* C1: once a start_scanning call has returned and no stop_scanning call has
\* begun since, exactly one scan thread is running and exactly one was
\* started, however many further start_scanning calls have returned: a second
\* call in a row is a no-op.
C1_SecondStartIsNoOp ==
  startsSinceStop >= 1 =>
    /\ spawnedSinceStop = 1
    /\ Cardinality(AliveThreads) = 1

\* Two start_scanning calls in a row have returned and one scan thread runs.
C1_Witness ==
  /\ startsSinceStop = 2
  /\ cpc["main"] = "idle"
  /\ Cardinality(AliveThreads) = 1

\* C2: under every interleaving of start_scanning and stop_scanning calls
\* from different threads, at most one scan thread is alive at any time.
C2_AtMostOneLoop == Cardinality(AliveThreads) <= 1

\* C3: when stop_scanning has returned and no start_scanning call has begun
\* since, no scan thread exists that could start a sample, write the shared
\* state or notify a consumer: every thread ever started has exited.
C3_StopReturnsAfterLoopExit ==
  stopped => \A t \in Threads : tpc[t] \in {"none", "done"}

\* stop_scanning has returned on a scheduler whose thread had published a
\* pass; the thread has exited.
C3_Witness ==
  /\ stopped
  /\ devices # << >>
  /\ \E t \in Threads : tpc[t] = "done"

\* C4: the rest between passes is interruptible by a stop request: no tick of
\* the rest goes by in a scan thread while a stop_scanning call waits for that
\* thread to exit.
C4_RestInterruptible == ~restedWhileStopping

\* C5: every failed pass of a scan thread (failed[t]: the thread's latest pass
\* failed and the thread has not been stopped) is eventually followed by the
\* start of a new pass of that thread, unless a stop is requested.
C5_FailedPassFollowedByNewPass ==
  \A t \in Threads :
    failed[t] ~> (tpc[t] = "scan" \/ ~is_scanning)

\* After a pass in which the Observation Source raised, the thread has rested
\* and is starting its next pass, no stop being requested.
C5_Witness ==
  \E t \in Threads :
    /\ failed[t]
    /\ tpc[t] = "scan"
    /\ loopState = "open"
    /\ is_scanning

\* Result ds holds exactly one entry per distinct address of the raw readings
\* rs, and that entry is built from the last reading of its address.
LastWriteWins(rs, ds) ==
  /\ \A i \in 1..Len(rs) :
       Cardinality({k \in 1..Len(ds) : ds[k].address = rs[i].address}) = 1
  /\ \A k \in 1..Len(ds) :
       \E j \in 1..Len(rs) :
         /\ rs[j].address = ds[k].address
         /\ \A j2 \in (j + 1)..Len(rs) : rs[j2].address # ds[k].address
         /\ ds[k].rssi = IF rs[j].rssi = NoRssi THEN 0 ELSE rs[j].rssi

\* C6: the ScanPassResult a completed pass publishes holds exactly one entry
\* per distinct address among the raw readings of the pass, namely the last
\* reading received for that address.
C6_LastWriteWins ==
  \A t \in Threads :
    (tpc[t] \in {"fanout", "call"} /\ alias = t /\ ~failed[t]) =>
      LastWriteWins(raw[t], devices)

\* A pass with three readings, the first and the last for the same address
\* with different signal strengths, has been published as two entries.
C6_Witness ==
  \E t \in Threads :
    /\ tpc[t] = "fanout"
    /\ alias = t
    /\ Len(raw[t]) = 3
    /\ raw[t][1].address = raw[t][3].address
    /\ raw[t][1].rssi # raw[t][3].rssi
    /\ raw[t][2].address # raw[t][1].address
    /\ Len(devices) = 2

\* C7: when the fan-out of a pass is over and no registration changed during
\* it, every registered consumer was invoked for that pass, also those that
\* come after a consumer that raises; and the scan thread has not ended.
C7_SinkFailureIsolated ==
  \A t \in Threads :
    /\ (tpc[t] = "sleep" /\ ~changed[t]) =>
         \A c \in Range(callbacks) : calls[t][c] >= 1
    /\ tpc[t] # "done"

\* The raising consumer is registered before the well-behaved one, a pass was
\* delivered with no registration change, and both were invoked.
C7_Witness ==
  \E t \in Threads :
    /\ tpc[t] = "sleep"
    /\ ~changed[t]
    /\ \E i, j \in 1..Len(callbacks) :
         i < j /\ callbacks[i] = "bad" /\ callbacks[j] = "good"
    /\ calls[t]["bad"] = 1
    /\ calls[t]["good"] = 1

\* C8: a consumer is never invoked after remove_callback has returned for it
\* and left it unregistered (unless it is registered again).
C8_NoCallAfterRemove == ~lateCall

\* C9: a consumer registered once when the fan-out of a pass began, and not
\* itself registered or deregistered since, is invoked at most once for that
\* pass, whatever other registrations and deregistrations happen meanwhile.
C9_NoDuplicateDelivery ==
  \A t \in Threads : \A c \in stable[t] : calls[t][c] <= 1

\* The list changed while a pass was being delivered, and a consumer that
\* stayed registered has been invoked for that pass.
C9_Witness ==
  \E t \in Threads : \E c \in stable[t] :
    /\ tpc[t] = "fanout"
    /\ changed[t]
    /\ calls[t][c] = 1
    /\ Len(callbacks) >= 2
    /\ callbacks[1] # c

\* C10: every get_devices call returns the complete list the shared state
\* held when the call took the lock, never a part of it or a mixture.
C10_NoTornRead == got.value = got.expected

\* A get_devices call returned a two-device pass and the shared state has
\* been replaced since.
C10_Witness ==
  /\ Len(got.value) = 2
  /\ devices # got.value
  /\ rpc = "idle"

\* C11: every iteration of the scan loop uses a sample duration and a rest
\* interval that both come from the config in force when the iteration began:
\* the duration a thread's sample sleeps and the interval its rest begins with
\* are the scan_duration and scan_interval of that one config.
C11_OneConfigPerIteration ==
  \A t \in Threads :
    /\ sample[t] # NoRead => sample[t] = cfgAtStart[t]["scan_duration"]
    /\ usedInt[t] # NoRead => usedInt[t] = cfgAtStart[t]["scan_interval"]

\* The positive values a cadence field may take.
Positive(n) == n > 0

\* The body p carries a zero or negative value for some cadence field.
HasNonPositive(p) ==
  \E f \in Fields : p[f].kind \in {"int", "numstr"} /\ ~Positive(p[f].v)

\* The body p carries a value that is not a number for some cadence field.
HasNonNumeric(p) == \E f \in Fields : p[f].kind = "text"

\* The latest update_config call of u has ended and left everything as it was.
Rejected(u) ==
  /\ outcome[u] = "error"
  /\ savedIn[u] = 0
  /\ Snapshot = pre[u]

\* C12: an update_config call whose body carries a zero or negative cadence
\* value ends with an error, and the live config, the persisted config and
\* the scanner's scan_duration and scan_interval are what they were before.
C12_NonPositiveRejected ==
  \A u \in Updaters :
    (upc[u] = "idle" /\ outcome[u] # "none" /\ HasNonPositive(payload[u]))
      => Rejected(u)

\* C13: an update_config call whose body carries a non-numeric cadence value
\* ends with an error before anything is merged: save_config was not invoked,
\* and the live config, the persisted config and the scanner's scan_duration
\* and scan_interval are what they were before the call.
C13_NonNumericRejected ==
  \A u \in Updaters :
    (upc[u] = "idle" /\ outcome[u] # "none" /\ HasNonNumeric(payload[u]))
      => Rejected(u)

\* A call whose body holds a new positive scan_duration and a non-numeric
\* scan_interval has ended with an error, after an earlier call had changed
\* the config.
C13_Witness ==
  /\ upc["web1"] = "idle"
  /\ outcome["web1"] = "error"
  /\ payload["web1"]["scan_duration"] = Num(4)
  /\ payload["web1"]["scan_interval"] = Text
  /\ config["sleep_duration"] = 4
  /\ config["scan_duration"] = DurationTicks

\* C14: insert_scan_results with an empty list changes nothing: the table,
\* and so its total count and its distinct-address count, are what they were
\* before the call.
C14_EmptyAppendNoOp ==
  (op.name = "insert" /\ op.batch = << >>) =>
    /\ rows = op.before
    /\ analytics_summary(rows) = analytics_summary(op.before)

\* An empty list was inserted into a table that held rows.
C14_Witness ==
  /\ op.name = "insert"
  /\ op.batch = << >>
  /\ Len(op.before) = 2

\* The number of times x occurs in the sequence s.
Count(s, x) == Cardinality({i \in 1..Len(s) : s[i] = x})

\* Sequences s and q hold the same elements the same number of times.
SameEvents(s, q) ==
  /\ Len(s) = Len(q)
  /\ \A x \in Range(s) \cup Range(q) : Count(s, x) = Count(q, x)

\* Sequence s of rows is ordered by ts descending.
Descending(s) == \A i, j \in 1..Len(s) : i < j => s[i].ts >= s[j].ts

\* The recent_scans call recorded in op came right after an
\* insert_scan_results call and asked for as many rows as that batch had.
RecentAfterInsert ==
  /\ op.name = "recent"
  /\ op.after.name = "insert"
  /\ op.limit = Len(op.after.batch)

\* C15 as the spec states it: insert_scan_results(batch) followed by
\* recent_scans(len(batch)) returns exactly the events of the batch, ordered
\* by ts descending, whatever the table held before.
C15_AppendThenRecent ==
  RecentAfterInsert =>
    /\ SameEvents(op.out, RowsOf(op.after.batch))
    /\ Descending(op.out)

\* Every row the table held before the insert is older than every device of
\* the batch.
BatchIsNewer(o) ==
  \A i \in 1..Len(o.before) : \A j \in 1..Len(o.batch) :
    o.before[i].ts < o.batch[j].timestamp

\* C15, amended: insert_scan_results(batch) into a table whose rows are all
\* older than every event of the batch, followed by recent_scans(len(batch)),
\* returns exactly the events of the batch, ordered by ts descending.
C15_AppendNewerThenRecent ==
  (RecentAfterInsert /\ BatchIsNewer(op.after)) =>
    /\ SameEvents(op.out, RowsOf(op.after.batch))
    /\ Descending(op.out)

\* A batch of two events with different times, the older one first, was
\* inserted into a table holding an older row, and recent_scans(2) returned
\* the two, the later one first.
C15_Witness ==
  /\ RecentAfterInsert
  /\ BatchIsNewer(op.after)
  /\ Len(op.after.before) = 1
  /\ Len(op.after.batch) = 2
  /\ op.after.batch[1].timestamp < op.after.batch[2].timestamp
  /\ op.out = << rows[3], rows[2] >>

\* Row i of the table is more recent than row j: later by ts, or as late and
\* inserted later.
MoreRecent(i, j) ==
  rows[i].ts > rows[j].ts \/ (rows[i].ts = rows[j].ts /\ i > j)

C17_NoEmptyEntry ==
  op.name = "timeline" =>
    \A k \in 1..Len(op.out) : op.out[k].detections # << >>

\* The table holds rows of two addresses and get_timeline_data returned an
\* entry for one of them only.
C17_Witness ==
  /\ op.name = "timeline"
  /\ Len(op.out) = 1
  /\ \E i \in 1..Len(rows) : rows[i].address # op.out[1].address

\* The detections with timestamp tm that out lists under address a.
Listed(out, a, tm) ==
  {<< k, d >> \in (1..Len(out)) \X (1..MaxRows) :
     /\ out[k].address = a
     /\ d <= Len(out[k].detections)
     /\ out[k].detections[d].timestamp = tm}

\* The rows of address a and time tm that lie in the window [lo, hi].
Held(a, tm, lo, hi) ==
  {i \in 1..Len(rows) :
     rows[i].address = a /\ rows[i].ts = tm /\ lo <= tm /\ tm <= hi}

\* C18: when the window holds fewer rows than the row cap,
\* get_timeline_data(h) returns exactly the events whose ts lies in
\* [now - h, now], none older and none later than now, each once under the
\* entry of its address, one entry per address, detections ascending by ts.
C18_TimelineWindow ==
  (op.name = "timeline"
     /\ Len(InWindow(rows, op.at, op.hours)) < TimelineCap) =>
    /\ \A k, l \in 1..Len(op.out) :
         k # l => op.out[k].address # op.out[l].address
    /\ \A a \in Addresses : \A tm \in Times :
         Cardinality(Listed(op.out, a, tm))
           = Cardinality(Held(a, tm, op.at - op.hours, op.at))
    /\ \A k \in 1..Len(op.out) : \A d, e \in 1..Len(op.out[k].detections) :
         d < e => op.out[k].detections[d].timestamp
                    <= op.out[k].detections[e].timestamp

\* C19: a clear_all_data call with no other store operation between its
\* count and its delete empties the table and returns records_deleted equal
\* to records_before, both the number of rows the table held; an
\* analytics_summary that follows reports total_records = 0 and
\* unique_devices = 0.
C19_ClearAllThenSummary ==
  /\ (op.name = "clear" /\ op.quiet) =>
       /\ rows = << >>
       /\ op.records_deleted = op.records_before
       /\ op.records_deleted = op.held
  /\ (op.name = "summary" /\ op.after.name = "clear" /\ op.after.quiet) =>
       /\ op.out.total_records = 0
       /\ op.out.unique_devices = 0

\* analytics_summary ran after an undisturbed clear_all_data that removed two
\* rows.
C19_Witness ==
  /\ op.name = "summary"
  /\ op.after.name = "clear"
  /\ op.after.quiet
  /\ op.after.records_deleted = 2

\* C20: under every interleaving of clear_all_data with insert_scan_results,
\* the returned records_deleted equals the returned records_before and equals
\* the number of rows the table held immediately before the removal.
C20_ClearAtomic ==
  op.name = "clear" =>
    /\ op.records_deleted = op.records_before
    /\ op.records_deleted = op.held

RECURSIVE SumCounts(_)
\* The sum of the counts of the entries of top.
SumCounts(top) ==
  IF top = << >> THEN 0 ELSE top[1].count + SumCounts(Tail(top))

\* The number of rows of table tb with address a.
CountOf(tb, a) == Cardinality({i \in 1..Len(tb) : tb[i].address = a})

\* Table tb holds an event of A, a later one of A and a still later one of B
\* and nothing else.
IsAAB(tb) ==
  /\ Len(tb) = 3
  /\ tb[1].address = "A" /\ tb[2].address = "A" /\ tb[3].address = "B"
  /\ tb[1].ts < tb[2].ts /\ tb[2].ts < tb[3].ts

\* C21: a summary() whose first query read what the table of its second query
\* holds (as when no write falls between the two) reports as total_records the number
\* of events appended to the store, as unique_devices the number of distinct
\* addresses among them, and with every listed top device the number of
\* events of its address; for the events A, A, B observed at t1 < t2 < t3 the
\* summary is total 3, unique 2, top_devices [A: 2, B: 1], and a timeline
\* whose window holds the three events returns two groups, A with its two
\* entries in time order, then B with one.
C21_SummaryCounts ==
  /\ (op.name = "summary" /\ op.table \in op.points) =>
       /\ op.out.total_records = Len(op.table)
       /\ op.out.unique_devices =
            Cardinality({op.table[i].address : i \in 1..Len(op.table)})
       /\ \A k \in 1..Len(op.out.top_devices) :
            op.out.top_devices[k].count =
              CountOf(op.table, op.out.top_devices[k].address)
       /\ IsAAB(op.table) =>
            /\ op.out.total_records = 3
            /\ op.out.unique_devices = 2
            /\ op.out.top_devices = << [address |-> "A", count |-> 2],
                                       [address |-> "B", count |-> 1] >>
  /\ ( /\ op.name = "timeline"
       /\ IsAAB(op.table)
       /\ \A i \in 1..3 : op.table[i].ts \in (op.at - op.hours)..op.at ) =>
       op.out =
         << [address |-> "A",
             detections |-> << [timestamp |-> op.table[1].ts,
                                rssi |-> op.table[1].rssi],
                               [timestamp |-> op.table[2].ts,
                                rssi |-> op.table[2].rssi] >>],
            [address |-> "B",
             detections |-> << [timestamp |-> op.table[3].ts,
                                rssi |-> op.table[3].rssi] >>] >>

\* A summary of the table A, A, B was returned, no write overlapping it, at an
\* hour at which the window of two hours holds the three events.
C21_Witness ==
  /\ op.name = "summary"
  /\ op.points = {op.table}
  /\ op.after.name = "insert"
  /\ IsAAB(op.table)
  /\ op.out.top_devices[1].count = 2
  /\ \A i \in 1..3 : op.table[i].ts \in (now - 2)..now

\* Entry x of top_devices comes before entry y: a higher count, or the same
\* count and the lower address.
TopBefore(x, y) ==
  \/ x.count > y.count
  \/ x.count = y.count /\ AddrRank(x.address) < AddrRank(y.address)

Returned(out, tb) ==
  Cardinality({p \in (1..Len(out)) \X (1..Len(tb)) :
                 p[2] <= Len(out[p[1]].detections)})

\* C29: when the window holds more events than the row cap, timeline(h)
\* returns detections for at most cap events, and the events it leaves out
\* are the oldest: no in-window event that is missing from the result was
\* observed later than an event that is in it.
C29_CapDropsOldest ==
  ( /\ op.name = "timeline"
    /\ Len(InWindow(op.table, op.at, op.hours)) > op.cap ) =>
    /\ Returned(op.out, op.table) <= op.cap
    /\ \A i \in 1..Len(op.table) :
         ( /\ op.table[i].ts >= op.at - op.hours
           /\ Listed(op.out, op.table[i].address, op.table[i].ts) = {} ) =>
           \A k \in 1..Len(op.out) : \A d \in 1..Len(op.out[k].detections) :
             op.table[i].ts <= op.out[k].detections[d].timestamp

\* C30: the result of a summary() is the summary of the table the store held
\* at one single moment of the call, whatever appends and clears run
\* meanwhile; in particular the counts of top_devices do not sum to more than
\* total_records.
C30_SummarySerializable ==
  op.name = "summary" =>
    /\ \E tb \in op.points : op.out = summary_at(tb, op.cap)
    /\ SumCounts(op.out.top_devices) <= op.out.total_records

\* The tables that hold every row of the batch of the latest
\* insert_scan_results call or none of them.
WholeBatch ==
  IF txn.state = "none" THEN {rows}
  ELSE {txn.before, txn.before \o RowsOf(txn.batch)}

\* C23: an append is all-or-nothing: at every moment the table other
\* connections read holds every row of the batch being appended or none, so
\* does the table each statement of recent_scans, get_timeline_data and
\* analytics_summary has read, and after an append that raised at one of its
\* rows or at its commit the table holds none of its rows.
C23_BatchAllOrNothing ==
  /\ rows \in WholeBatch
  /\ txn.state = "open" => rows = txn.before
  /\ txn.state = "rolledback" => rows = txn.before
  /\ txn.state = "committed" => rows = txn.before \o RowsOf(txn.batch)
  /\ op.name \in {"recent", "timeline", "summary"} => op.table \in WholeBatch
  /\ op.name = "recent" => op.out = recent_scans(op.table, op.limit)
  /\ op.name = "timeline" =>
       op.out = timeline_capped(op.table, op.at, op.hours, op.cap)
  /\ op.name = "summary" =>
       /\ op.out.top_devices = top_devices(op.table, op.cap)
       /\ \E tb \in op.points : op.out.total_records = Len(tb)

\* A batch of two rows raised at its second row, after the first was written,
\* and a reader has run since: the table holds neither row.
C23_Witness ==
  /\ txn.state = "rolledback"
  /\ txn.n = 1
  /\ Len(txn.batch) = 2
  /\ op.name = "recent"
  /\ op.table = txn.before

\* C24: health_check never raises: when the connection or one of its queries
\* fails it returns status unhealthy, and when they all succeed it returns
\* status healthy with the number of rows of the table and the latest ts in
\* it (none for an empty table).
C24_HealthNeverRaises ==
  op.name = "health" =>
    /\ ~op.raised
    /\ op.fail # "none" => op.out.status = "unhealthy"
    /\ op.fail = "none" =>
         /\ op.out.status = "healthy"
         /\ op.out.total_records = Len(op.table)
         /\ \A i \in 1..Len(op.table) : op.table[i].ts <= op.out.last_scan
         /\ op.table # << >> =>
              \E i \in 1..Len(op.table) : op.table[i].ts = op.out.last_scan

\* A health check of a store that holds events failed at one of its queries
\* and returned the unhealthy record.
C24_Witness ==
  /\ op.name = "health"
  /\ op.fail = "max"
  /\ op.table # << >>
  /\ op.out.status = "unhealthy"
  /\ ~op.raised

\* C25: an append that raises is not fatal: it leaves the store as it was and
\* the scan thread goes on; the events of the failed pass are not appended
\* later, for every append that succeeds adds the events of its own pass and
\* nothing else.
C25_FailedAppendNotFatal ==
  /\ \A t \in Threads : tpc[t] # "done"
  /\ op.name = "sink" =>
       rows = IF op.raised THEN op.before ELSE op.before \o RowsOf(op.batch)

\* The append of a pass with devices raised, and the two devices of a later
\* pass are all the store holds.
C25_Witness ==
  /\ sinkRaised
  /\ op.name = "sink"
  /\ ~op.raised
  /\ Len(op.batch) = 2
  /\ rows = RowsOf(op.batch)

\* C26: a pass in which the Observation Source fails is an empty pass: the
\* shared state is replaced by the empty list, the consumer is called with
\* the empty list, and the store is left as it was.
C26_FailedScanIsEmptyPass ==
  /\ \A t \in Threads :
       (failed[t] /\ tpc[t] \in {"fanout", "call", "sleep"}) =>
         /\ devices = << >>
         /\ ldev[t] = << >>
  /\ (op.name = "sink" /\ op.scan_failed) =>
       /\ op.batch = << >>
       /\ ~op.raised
       /\ rows = op.before

\* The store holds the events of an earlier pass, the Observation Source
\* failed in the pass just delivered, and the consumer was called for it.
C26_Witness ==
  \E t \in Threads :
    /\ failed[t]
    /\ tpc[t] = "sleep"
    /\ op.name = "sink"
    /\ op.scan_failed
    /\ op.before # << >>
    /\ devices = << >>

\* The number of times consumer c occurs among the first n registrations, as
\* far as the history of calls counts.
Registered(c, n) ==
  LET k == Cardinality({i \in 1..n : callbacks[i] = c})
  IN  IF k > 2 THEN 2 ELSE k

\* C27: from the first notification of a pass on, the shared state holds the
\* result of that pass, which is the list the consumers are given; and as
\* long as no registration changes during the fan-out, the consumers are
\* invoked in registration order, one call per registration: the k-th call
\* goes to the k-th registration, and when the fan-out is over every
\* registration has had exactly one call.
C27_PublishThenNotifyInOrder ==
  \A t \in Threads :
    /\ tpc[t] \in {"fanout", "call"} =>
         /\ alias = t
         /\ devices = ldev[t]
         /\ ldev[t] = IF failed[t] THEN << >> ELSE ScanResult(raw[t])
    /\ (tpc[t] = "call" /\ ~changed[t]) =>
         /\ cb[t] = callbacks[idx[t]]
         /\ \A c \in Consumers : calls[t][c] = Registered(c, idx[t] - 1)
    /\ (tpc[t] = "fanout" /\ ~changed[t]) =>
         \A c \in Consumers : calls[t][c] = Registered(c, idx[t])
    /\ (tpc[t] = "sleep" /\ ~changed[t]) =>
         \A c \in Consumers : calls[t][c] = Registered(c, Len(callbacks))

\* Three consumers are registered, a pass with two devices is being
\* delivered with no registration change, the first two consumers have been
\* called and the third is about to be.
C27_Witness ==
  \E t \in Threads :
    /\ tpc[t] = "call"
    /\ ~changed[t]
    /\ idx[t] = 3
    /\ callbacks = << "on_devices_found", "bad", "good" >>
    /\ calls[t] = [c \in Consumers |-> IF c = "good" THEN 0 ELSE 1]
    /\ Len(devices) = 2

\* C28: a consumer that stays registered during the whole fan-out of a pass
\* has been invoked exactly once when the fan-out is over, whatever consumer
\* is deregistered meanwhile.
C28_RemoveDoesNotSkip ==
  \A t \in Threads :
    tpc[t] = "sleep" =>
      \A c \in stable[t] : c \in Range(callbacks) => calls[t][c] = 1

\* The config update_config(p) is to build from the config prev: every field
\* present in p from p, every other field from prev.
MergeOf(prev, p) ==
  [f \in Fields |-> IF p[f].kind = "absent" THEN prev[f] ELSE p[f].v]

\* C31: an update_config call that succeeds merges, persists and applies in
\* that order: the merged config takes the fields of the body from the body
\* and the others from the previous config; while the file is being written
\* nothing else has changed, and the file holds the merged config before the
\* live config and the scanner take it; save_config ran exactly once; and on
\* return the live config, the value returned, the file and the scanner's
\* scan_duration and scan_interval are the merged config.
C31_MergePersistApply ==
  \A u \in Updaters :
    /\ upc[u] # "idle" => merged[u] = MergeOf(pre[u].config, payload[u])
    /\ upc[u] = "save" => Snapshot = pre[u] /\ savedIn[u] = 0
    /\ upc[u] = "assign" =>
         /\ persisted = merged[u]
         /\ config = pre[u].config
         /\ scan_duration = pre[u].scan_duration
         /\ scan_interval = pre[u].scan_interval
    /\ upc[u] \in {"apply_duration", "apply_interval", "return"} =>
         persisted = merged[u] /\ config = merged[u]
    /\ (upc[u] = "idle" /\ outcome[u] = "ok") =>
         /\ merged[u] = MergeOf(pre[u].config, payload[u])
         /\ savedIn[u] = 1
         /\ config = merged[u]
         /\ ret[u] = merged[u]
         /\ persisted = merged[u]
         /\ scan_duration = merged[u]["scan_duration"]
         /\ scan_interval = merged[u]["scan_interval"]

\* A call whose body holds a new scan_duration and nothing else has returned,
\* after an earlier call had changed the interval: the duration is the new
\* one and the interval is the earlier call's.
C31_Witness ==
  /\ upc["web1"] = "idle"
  /\ outcome["web1"] = "ok"
  /\ payload["web1"] = [f \in Fields |->
                          IF f = "scan_duration" THEN Num(4) ELSE Absent]
  /\ pre["web1"].config["scan_duration"] = DurationTicks
  /\ pre["web1"].config["scan_interval"] = 4
  /\ ret["web1"]["scan_duration"] = 4
  /\ ret["web1"]["scan_interval"] = 4
  /\ scan_duration = 4

\* C32: the scanner can be restarted: whenever a scan thread is about to
\* sample the Observation Source, in the first run or after stop_scanning and
\* a new start_scanning, it has an event loop it can run the scan on, so the
\* pass obtains the readings of the source and publishes and delivers them
\* as in the first run.
C32_RestartScansAgain ==
  \A t \in Threads : tpc[t] = "scan" => loopState # "closed"

\* Once every call has returned, config.json, the live config and the
\* scanner's cadence fields agree.
C33_PersistedIsLive ==
  (\A u \in Updaters : upc[u] = "idle" /\ outcome[u] = "ok") =>
     /\ persisted = config
     /\ scan_duration = config["scan_duration"]
     /\ scan_interval = config["scan_interval"]
\* Once every call has returned, each field a call set has the value that
\* call gave it.
C33_NoLostUpdate ==
  (\A u \in Updaters : upc[u] = "idle" /\ outcome[u] = "ok") =>
     \A u \in Updaters : \A f \in Fields :
        payload[u][f].kind # "absent" => config[f] = payload[u][f].v
\* C33: concurrent update_config calls stay consistent: once the calls of
\* both request threads have returned, config.json holds the live config, the
\* scanner's scan_duration and scan_interval are those of the live config,
\* and every field a returned call set still has the value that call gave it
\* (no update is lost to the other call).
C33_ConcurrentUpdatesConsistent ==
  C33_PersistedIsLive /\ C33_NoLostUpdate

AddressesOf(ds) == {ds[i].address : i \in DOMAIN ds}

\* C34: the list handed to the sinks is the full device set of the pass
\* whatever else runs: right after on_devices_found was called for a pass
\* whose scan succeeded, the batch it was given holds one device for every
\* address the pass detected, also when clear_devices ran since the
\* publication.
C34_SinkGetsFullPass ==
  \A t \in Threads :
    ( /\ tpc[t] = "fanout"
      /\ calls[t]["on_devices_found"] >= 1
      /\ op.name = "sink"
      /\ ~op.scan_failed ) =>
        /\ Len(op.batch) = Len(ScanResult(raw[t]))
        /\ AddressesOf(op.batch) = AddressesOf(ScanResult(raw[t]))

====
